---- MODULE Spec2Model ----
(***************************************************************************)
(* Table-driven CRC update functions of crcmod's C extension               *)
(* (_crcfunext.c): _crc8, _crc8r, _crc16, _crc16r, _crc24, _crc24r,        *)
(* _crc32, _crc32r, _crc64, _crc64r.                                       *)
(*                                                                         *)
(* Unsigned C integers are little-endian sequences of bytes (w[1] is       *)
(* BYTE0), so that 32- and 64-bit registers keep their exact width.  A     *)
(* Python integer argument or result is an 8-byte numeral of the same      *)
(* kind.  The table is the byte string the caller passes; a slot is read   *)
(* through the typed pointer of a little-endian host.  long is taken to    *)
(* be wider than 32 bits (LP64), so that (long)crc of a UINT32 keeps its   *)
(* value.  The s#, B, H, I and K formats of PyArg_ParseTuple convert       *)
(* without overflow check: the register argument is reduced to the type    *)
(* of crc.                                                                 *)
(***************************************************************************)
EXTENDS Integers, Sequences, FiniteSets, TLC

VARIABLES pc, fn, crcArg, data, dataLen, pos, crc, table, tableLen, result,
          nChecks, nSteps, sessSeed, sessData

vars == <<pc, fn, crcArg, data, dataLen, pos, crc, table, tableLen, result,
          nChecks, nSteps, sessSeed, sessData>>

(***************************************************************************)
(* Bounds of the model.                                                    *)
(***************************************************************************)
MaxDataLen == 2
MaxSessLen == 3

(***************************************************************************)
(* Byte and word arithmetic.                                               *)
(***************************************************************************)
RECURSIVE XorBits(_, _, _)
XorBits(a, b, n) ==
    IF n = 0 THEN 0
    ELSE (((a % 2) + (b % 2)) % 2) + 2 * XorBits(a \div 2, b \div 2, n - 1)

Xor8(a, b) == XorBits(a, b, 8)

Zeros(n) == [i \in 1..n |-> 0]

XorW(x, y) == [i \in 1..Len(x) |-> Xor8(x[i], y[i])]

Trunc(x, n) == SubSeq(x, 1, n)

ZExt(x, n) == x \o Zeros(n - Len(x))

Shl8(x) == <<0>> \o SubSeq(x, 1, Len(x) - 1)

Shr8(x) == Tail(x) \o <<0>>

BYTE0(x) == x[1]

BYTE1(x) == x[2]

BYTE2(x) == x[3]

BYTE3(x) == x[4]

BYTE7(x) == x[8]

Mask24(x) == [i \in 1..Len(x) |-> IF i <= 3 THEN x[i] ELSE 0]

PyLen == 8

(***************************************************************************)
(* The ten entry points and their parameters.                              *)
(***************************************************************************)
\* The null pointer of a PyMethodDef field.
NULL == "NULL"

\* Mutant: the names of the 32-bit pair bound to each other's function.
methodTableSwapped ==
    <<[ml_name |-> "_crc8", ml_meth |-> "_crc8", ml_flags |-> "METH_VARARGS"],
      [ml_name |-> "_crc8r", ml_meth |-> "_crc8r", ml_flags |-> "METH_VARARGS"],
      [ml_name |-> "_crc16", ml_meth |-> "_crc16", ml_flags |-> "METH_VARARGS"],
      [ml_name |-> "_crc16r", ml_meth |-> "_crc16r", ml_flags |-> "METH_VARARGS"],
      [ml_name |-> "_crc24", ml_meth |-> "_crc24", ml_flags |-> "METH_VARARGS"],
      [ml_name |-> "_crc24r", ml_meth |-> "_crc24r", ml_flags |-> "METH_VARARGS"],
      [ml_name |-> "_crc32", ml_meth |-> "_crc32r", ml_flags |-> "METH_VARARGS"],
      [ml_name |-> "_crc32r", ml_meth |-> "_crc32", ml_flags |-> "METH_VARARGS"],
      [ml_name |-> "_crc64", ml_meth |-> "_crc64", ml_flags |-> "METH_VARARGS"],
      [ml_name |-> "_crc64r", ml_meth |-> "_crc64r", ml_flags |-> "METH_VARARGS"],
      [ml_name |-> NULL, ml_meth |-> NULL, ml_flags |-> "0"]>>

\* Each entry binds the Python name ml_name to the C function ml_meth; the
\* entry of null pointers ends the array.
methodTable ==
    <<[ml_name |-> "_crc8", ml_meth |-> "_crc8", ml_flags |-> "METH_VARARGS"],
      [ml_name |-> "_crc8r", ml_meth |-> "_crc8r", ml_flags |-> "METH_VARARGS"],
      [ml_name |-> "_crc16", ml_meth |-> "_crc16", ml_flags |-> "METH_VARARGS"],
      [ml_name |-> "_crc16r", ml_meth |-> "_crc16r", ml_flags |-> "METH_VARARGS"],
      [ml_name |-> "_crc24", ml_meth |-> "_crc24", ml_flags |-> "METH_VARARGS"],
      [ml_name |-> "_crc24r", ml_meth |-> "_crc24r", ml_flags |-> "METH_VARARGS"],
      [ml_name |-> "_crc32", ml_meth |-> "_crc32", ml_flags |-> "METH_VARARGS"],
      [ml_name |-> "_crc32r", ml_meth |-> "_crc32r", ml_flags |-> "METH_VARARGS"],
      [ml_name |-> "_crc64", ml_meth |-> "_crc64", ml_flags |-> "METH_VARARGS"],
      [ml_name |-> "_crc64r", ml_meth |-> "_crc64r", ml_flags |-> "METH_VARARGS"],
      [ml_name |-> NULL, ml_meth |-> NULL, ml_flags |-> "0"]>>

\* Py_InitModule registers the entries before the first null name.
Registered(defs) ==
    LET last == CHOOSE i \in 0..Len(defs) :
                    /\ \A j \in 1..i : defs[j].ml_name # NULL
                    /\ i < Len(defs) => defs[i + 1].ml_name = NULL
    IN  SubSeq(defs, 1, last)

\* The C functions a Python caller can reach.
Fns == {Registered(methodTable)[i].ml_meth :
           i \in 1..Len(Registered(methodTable))}

CarrierBytes(f) ==
    CASE f \in {"_crc8", "_crc8r"} -> 1
      [] f \in {"_crc16", "_crc16r"} -> 2
      [] f \in {"_crc24", "_crc24r", "_crc32", "_crc32r"} -> 4
      [] f \in {"_crc64", "_crc64r"} -> 8

\* Mutant: every function decodes the register with the "B" format of INPUT8.
ParseCrcAsByte(f, v) == ZExt(Trunc(v, 1), CarrierBytes(f))

ParseCrc(f, v) == Trunc(v, CarrierBytes(f))

ValidTableLen(f) ==
    CASE f \in {"_crc8", "_crc8r"} -> 256
      [] f \in {"_crc16", "_crc16r"} -> 256 * 2
      [] f \in {"_crc24", "_crc24r", "_crc32", "_crc32r"} -> 256 * 4
      [] f \in {"_crc64", "_crc64r"} -> 256 * 8

Slot(t, size, i) == SubSeq(t, i * size + 1, i * size + size)

(***************************************************************************)
(* One pass of each function's while loop: the new register from the       *)
(* register c, the table t and the data byte d.                            *)
(***************************************************************************)
\* Mutant: the old register is xored into the entry, as the wider widths do.
crc8_body_accum(c, t, d) == XorW(Slot(t, 1, Xor8(d, c[1])), c)

crc8_body(c, t, d) == Slot(t, 1, Xor8(d, c[1]))

\* Mutant: the register is not fed back into the table index.
crc8r_body_nofeedback(c, t, d) == Slot(t, 1, d)

crc8r_body(c, t, d) == Slot(t, 1, Xor8(d, c[1]))

\* Mutant: the promoted int is kept, not converted back to UINT16.
crc16_body_wide(c, t, d) ==
    XorW(ZExt(Slot(t, 2, Xor8(d, BYTE1(c))), 4), Shl8(ZExt(c, 4)))

crc16_body(c, t, d) ==
    Trunc(XorW(ZExt(Slot(t, 2, Xor8(d, BYTE1(c))), 4), Shl8(ZExt(c, 4))), 2)

crc16r_body(c, t, d) ==
    Trunc(XorW(ZExt(Slot(t, 2, Xor8(d, BYTE0(c))), 4), Shr8(ZExt(c, 4))), 2)

\* Mutant: the index byte of _crc32 copied into _crc24.
crc24_body_byte3(c, t, d) == XorW(Slot(t, 4, Xor8(d, BYTE3(c))), Shl8(c))

\* Mutant: the register is shifted right, as in the reflected variant.
crc24_body_shr(c, t, d) == XorW(Slot(t, 4, Xor8(d, BYTE2(c))), Shr8(c))

crc24_body(c, t, d) == XorW(Slot(t, 4, Xor8(d, BYTE2(c))), Shl8(c))

crc24r_body(c, t, d) == XorW(Slot(t, 4, Xor8(d, BYTE0(c))), Shr8(c))

\* Mutant: the index byte of _crc24 copied into _crc32.
crc32_body_byte2(c, t, d) == XorW(Slot(t, 4, Xor8(d, BYTE2(c))), Shl8(c))

crc32_body(c, t, d) == XorW(Slot(t, 4, Xor8(d, BYTE3(c))), Shl8(c))

\* Mutant: the index byte of the normal variant left in the reflected one.
crc32r_body_byte3(c, t, d) == XorW(Slot(t, 4, Xor8(d, BYTE3(c))), Shr8(c))

crc32r_body(c, t, d) == XorW(Slot(t, 4, Xor8(d, BYTE0(c))), Shr8(c))

crc64_body(c, t, d) == XorW(Slot(t, 8, Xor8(d, BYTE7(c))), Shl8(c))

\* Mutant: the shift of the normal variant left in the reflected one.
crc64r_body_shl(c, t, d) == XorW(Slot(t, 8, Xor8(d, BYTE0(c))), Shl8(c))

crc64r_body(c, t, d) == XorW(Slot(t, 8, Xor8(d, BYTE0(c))), Shr8(c))

Body(f, c, t, d) ==
    CASE f = "_crc8" -> crc8_body(c, t, d)
      [] f = "_crc8r" -> crc8r_body(c, t, d)
      [] f = "_crc16" -> crc16_body(c, t, d)
      [] f = "_crc16r" -> crc16r_body(c, t, d)
      [] f = "_crc24" -> crc24_body(c, t, d)
      [] f = "_crc24r" -> crc24r_body(c, t, d)
      [] f = "_crc32" -> crc32_body(c, t, d)
      [] f = "_crc32r" -> crc32r_body(c, t, d)
      [] f = "_crc64" -> crc64_body(c, t, d)
      [] f = "_crc64r" -> crc64r_body(c, t, d)

(***************************************************************************)
(* The subscript of the table lookup in each loop.  The operands are a     *)
(* UINT8 data byte and a UINT8, either crc itself (width 8) or a BYTEn     *)
(* macro, whose cast keeps the low eight bits of the shifted register.     *)
(***************************************************************************)
\* Mutant: BYTE2 without its cast, so _crc24 passes on bits 24-31 of crc.
TableIndexNoCast(f, c, d) ==
    CASE f \in {"_crc8", "_crc8r"} -> Xor8(d, c[1])
      [] f = "_crc16" -> Xor8(d, BYTE1(c))
      [] f = "_crc24" -> Xor8(d, BYTE2(c)) + 256 * c[4]
      [] f = "_crc32" -> Xor8(d, BYTE3(c))
      [] f = "_crc64" -> Xor8(d, BYTE7(c))
      [] f \in {"_crc16r", "_crc24r", "_crc32r", "_crc64r"} ->
            Xor8(d, BYTE0(c))

TableIndex(f, c, d) ==
    CASE f \in {"_crc8", "_crc8r"} -> Xor8(d, c[1])
      [] f = "_crc16" -> Xor8(d, BYTE1(c))
      [] f = "_crc24" -> Xor8(d, BYTE2(c))
      [] f = "_crc32" -> Xor8(d, BYTE3(c))
      [] f = "_crc64" -> Xor8(d, BYTE7(c))
      [] f \in {"_crc16r", "_crc24r", "_crc32r", "_crc64r"} ->
            Xor8(d, BYTE0(c))

(***************************************************************************)
(* Entry and exit of a call.                                               *)
(***************************************************************************)
InvalidTable == [kind |-> "ValueError", msg |-> "invalid CRC table", val |-> <<>>]

ArgError == [kind |-> "TypeError", msg |-> "", val |-> <<>>]

NoResult == [kind |-> "none", msg |-> "", val |-> <<>>]

Returned(v) == [kind |-> "value", msg |-> "", val |-> v]

\* Mutant: the 24-bit functions want packed three-byte entries.
TableLenPacked24(f, n) ==
    n = IF f \in {"_crc24", "_crc24r"} THEN 256 * 3 ELSE ValidTableLen(f)

\* Mutant: a table longer than needed is accepted.
TableLenAtLeast(f, n) == n >= ValidTableLen(f)

\* Mutant: the test of _crc8 copied into every function.
TableLenIs256(f, n) == n = 256

TableLenOK(f, n) == n = ValidTableLen(f)

\* Mutant: _crc24r starts its loop from the carrier as parsed.
EntryCrcUnmasked(f, c) == c

EntryCrc(f, c) == IF f = "_crc24r" THEN Mask24(c) ELSE c

\* Mutant: _crc24 returns the carrier as it is.
ExitCrcUnmasked(f, c) == c

ExitCrc(f, c) == IF f = "_crc24" THEN Mask24(c) ELSE c

PyFromC(c) == ZExt(c, PyLen)

(***************************************************************************)
(* A whole call as a function of its arguments (data, crc, table).         *)
(***************************************************************************)
RECURSIVE Loop(_, _, _, _)
Loop(f, c, t, d) ==
    IF d = <<>> THEN c ELSE Loop(f, Body(f, c, t, Head(d)), t, Tail(d))

Run(f, d, c, t) ==
    IF ~TableLenOK(f, Len(t))
    THEN InvalidTable
    ELSE Returned(PyFromC(ExitCrc(f, Loop(f, EntryCrc(f, ParseCrc(f, c)), t, d))))

(***************************************************************************)
(* The caller's inputs.                                                    *)
(***************************************************************************)
DataBytes == {0, 165}

RECURSIVE SeqsUpTo(_, _)
SeqsUpTo(S, n) ==
    IF n = 0 THEN {<<>>}
    ELSE LET shorter == SeqsUpTo(S, n - 1)
         IN  shorter \cup {Append(s, b) : s \in shorter, b \in S}

Buffers == SeqsUpTo(DataBytes, MaxDataLen)

Seeds == { Zeros(PyLen),
           <<165, 0, 0, 0, 0, 0, 0, 0>>,
           <<1, 2, 3, 129, 5, 6, 7, 200>> }

GenByte(k, j) == IF k = 0 THEN 0 ELSE (j * (2 * k + 1) + 89 * k) % 256

GenTable(k, n) == [j \in 1..n |-> GenByte(k, j - 1)]

HighByteCleared(t) == [j \in 1..Len(t) |-> IF j % 4 = 0 THEN 0 ELSE t[j]]

TableLens == {0, 256, 512, 1024, 2048, 2049}

Gens == {0, 1}

Tables ==
    {GenTable(k, n) : k \in Gens, n \in TableLens}
        \cup {HighByteCleared(GenTable(k, 1024)) : k \in Gens}

(***************************************************************************)
(* State machine of one interpreter thread calling the entry points.       *)
(* pc is the position in the function called: "check" before the table     *)
(* length test, "mask" before line 302 of _crc24r, "loop" at the test of   *)
(* the while loop, "done" and "failed" after the two returns,      *)
(* "argerror" after the return of a failed PyArg_ParseTuple.  nChecks      *)
(* and nSteps count the table length tests and the loop passes of the      *)
(* call; sessSeed and sessData record the initial register and the bytes   *)
(* fed so far by a caller that passes each result to the next call.        *)
(***************************************************************************)
Init ==
    /\ pc = "idle"
    /\ fn = "_crc8"
    /\ crcArg = Zeros(PyLen)
    /\ data = <<>>
    /\ dataLen = 0
    /\ pos = 0
    /\ crc = <<0>>
    /\ table = <<>>
    /\ tableLen = 0
    /\ result = NoResult
    /\ nChecks = 0
    /\ nSteps = 0
    /\ sessSeed = Zeros(PyLen)
    /\ sessData = <<>>

\* Mutant: the register is a static that only the first call initialises.
ParseTupleStaticCrc(f, d, c, t) ==
    /\ fn' = f
    /\ crcArg' = c
    /\ data' = d
    /\ dataLen' = Len(d)
    /\ pos' = 0
    /\ crc' = IF pc = "idle" THEN ParseCrc(f, c) ELSE crc
    /\ table' = t
    /\ tableLen' = Len(t)
    /\ result' = NoResult
    /\ nChecks' = 0
    /\ nSteps' = 0
    /\ pc' = "check"

ParseTuple(f, d, c, t) ==
    /\ fn' = f
    /\ crcArg' = c
    /\ data' = d
    /\ dataLen' = Len(d)
    /\ pos' = 0
    /\ crc' = ParseCrc(f, c)
    /\ table' = t
    /\ tableLen' = Len(t)
    /\ result' = NoResult
    /\ nChecks' = 0
    /\ nSteps' = 0
    /\ pc' = "check"

Call ==
    /\ pc = "idle"
    /\ \E f \in Fns, d \in Buffers, c \in Seeds, t \in Tables :
          /\ ParseTuple(f, d, c, t)
          /\ sessSeed' = c
          /\ sessData' = d

\* Mutant: the register is optional in the format and defaults to 0.
CallOmitCrcDefault ==
    /\ pc = "idle"
    /\ \E f \in Fns, d \in Buffers, t \in Tables :
          /\ ParseTuple(f, d, Zeros(PyLen), t)
          /\ sessSeed' = <<>>
          /\ sessData' = d

\* A call with the tuple (data, table): PyArg_ParseTuple finds two
\* arguments where the format wants three, assigns no local, and the
\* function returns NULL with the TypeError it set.
CallOmitCrc ==
    /\ pc = "idle"
    /\ \E f \in Fns, d \in Buffers, t \in Tables :
          /\ fn' = f
          /\ data' = d
          /\ table' = t
          /\ sessData' = d
    /\ crcArg' = <<>>
    /\ sessSeed' = <<>>
    /\ result' = ArgError
    /\ pc' = "argerror"
    /\ UNCHANGED <<dataLen, pos, crc, tableLen, nChecks, nSteps>>

CallNextChunk ==
    /\ pc = "done"
    /\ \E d \in Buffers :
          /\ Len(sessData) + Len(d) <= MaxSessLen
          /\ ParseTuple(fn, d, result.val, table)
          /\ sessData' = sessData \o d
          /\ UNCHANGED sessSeed

CallAgain ==
    /\ pc \in {"done", "failed"}
    /\ crcArg \in Seeds
    /\ \E t \in Tables :
          /\ ParseTuple(fn, data, crcArg, t)
          /\ sessSeed' = crcArg
          /\ sessData' = data

Discard ==
    /\ pc \in {"done", "failed", "argerror"}
    /\ pc' = "idle"
    /\ fn' = "_crc8"
    /\ crcArg' = Zeros(PyLen)
    /\ data' = <<>>
    /\ dataLen' = 0
    /\ pos' = 0
    /\ crc' = <<0>>
    /\ table' = <<>>
    /\ tableLen' = 0
    /\ result' = NoResult
    /\ nChecks' = 0
    /\ nSteps' = 0
    /\ sessSeed' = Zeros(PyLen)
    /\ sessData' = <<>>

\* Mutant: the table is validated only when there is data to process.
CheckTableIfData ==
    /\ pc = "check"
    /\ nChecks' = nChecks + 1
    /\ IF dataLen # 0 /\ ~TableLenOK(fn, tableLen)
       THEN /\ result' = InvalidTable
            /\ pc' = "failed"
       ELSE /\ pc' = IF fn = "_crc24r" THEN "mask" ELSE "loop"
            /\ UNCHANGED result
    /\ UNCHANGED <<fn, crcArg, data, dataLen, pos, crc, table, tableLen,
                   nSteps, sessSeed, sessData>>

CheckTable ==
    /\ pc = "check"
    /\ nChecks' = nChecks + 1
    /\ IF ~TableLenOK(fn, tableLen)
       THEN /\ result' = InvalidTable
            /\ pc' = "failed"
       ELSE /\ pc' = IF fn = "_crc24r" THEN "mask" ELSE "loop"
            /\ UNCHANGED result
    /\ UNCHANGED <<fn, crcArg, data, dataLen, pos, crc, table, tableLen,
                   nSteps, sessSeed, sessData>>

MaskEntry ==
    /\ pc = "mask"
    /\ crc' = EntryCrc(fn, crc)
    /\ pc' = "loop"
    /\ UNCHANGED <<fn, crcArg, data, dataLen, pos, table, tableLen, result,
                   nChecks, nSteps, sessSeed, sessData>>

\* Mutant: the consumed byte is overwritten in the caller's buffer.
StepClobber ==
    /\ pc = "loop"
    /\ dataLen # 0
    /\ dataLen' = dataLen - 1
    /\ crc' = Body(fn, crc, table, data[pos + 1])
    /\ data' = [data EXCEPT ![pos + 1] = 0]
    /\ pos' = pos + 1
    /\ nSteps' = nSteps + 1
    /\ UNCHANGED <<pc, fn, crcArg, table, tableLen, result, nChecks,
                   sessSeed, sessData>>

\* Mutant: the data pointer is not advanced.
StepNoAdvance ==
    /\ pc = "loop"
    /\ dataLen # 0
    /\ dataLen' = dataLen - 1
    /\ crc' = Body(fn, crc, table, data[pos + 1])
    /\ nSteps' = nSteps + 1
    /\ UNCHANGED <<pc, fn, crcArg, data, pos, table, tableLen, result,
                   nChecks, sessSeed, sessData>>

Step ==
    /\ pc = "loop"
    /\ dataLen # 0
    /\ dataLen' = dataLen - 1
    /\ crc' = Body(fn, crc, table, data[pos + 1])
    /\ pos' = pos + 1
    /\ nSteps' = nSteps + 1
    /\ UNCHANGED <<pc, fn, crcArg, data, table, tableLen, result, nChecks,
                   sessSeed, sessData>>

Return ==
    /\ pc = "loop"
    /\ dataLen = 0
    /\ dataLen' = dataLen - 1
    /\ result' = Returned(PyFromC(ExitCrc(fn, crc)))
    /\ pc' = "done"
    /\ UNCHANGED <<fn, crcArg, data, pos, crc, table, tableLen, nChecks,
                   nSteps, sessSeed, sessData>>

Next ==
    \/ Call
    \/ CallOmitCrc
    \/ CallNextChunk
    \/ CallAgain
    \/ Discard
    \/ CheckTable
    \/ MaskEntry
    \/ Step
    \/ Return

Spec == Init /\ [][Next]_vars

(***************************************************************************)
(* What the specification says of widths and tables.                       *)
(***************************************************************************)
WidthBits(f) ==
    CASE f \in {"_crc8", "_crc8r"} -> 8
      [] f \in {"_crc16", "_crc16r"} -> 16
      [] f \in {"_crc24", "_crc24r"} -> 24
      [] f \in {"_crc32", "_crc32r"} -> 32
      [] f \in {"_crc64", "_crc64r"} -> 64

EntryByteSize(w) ==
    CASE w = 8 -> 1 [] w = 16 -> 2 [] w = 24 -> 4 [] w = 32 -> 4 [] w = 64 -> 8

RightTableLen(f) == 256 * EntryByteSize(WidthBits(f))

\* The numeral v is at most 2^w - 1.
FitsBits(v, w) == \A i \in 1..Len(v) : i > w \div 8 => v[i] = 0

Ended == pc \in {"done", "failed"}

(***************************************************************************)
(* C1: feeding chunk A and then chunk B from the returned register gives   *)
(* the register of one call on A+B, for all ten entry points and every     *)
(* table contents.  The code breaks it in _crc24r.                         *)
(***************************************************************************)
C1_ChunkingAllVariants ==
    pc = "done" => result = Run(fn, sessData, sessSeed, table)

(***************************************************************************)
(* C2 as stated: a call with empty data returns exactly the initial        *)
(* register passed in, for every value the entry point accepts.            *)
(***************************************************************************)
C2_EmptyReturnsArgument ==
    (pc = "done" /\ data = <<>>) => result.val = crcArg

(***************************************************************************)
(* C2 amended: a call with empty data and an initial register in           *)
(* [0, 2^W - 1] returns exactly that initial register.                     *)
(***************************************************************************)
C2_EmptyIdentity ==
    (Ended /\ data = <<>> /\ tableLen = RightTableLen(fn)
           /\ FitsBits(crcArg, WidthBits(fn)))
        => result = Returned(crcArg)

C2_Witness ==
    /\ pc = "done" /\ data = <<>> /\ fn = "_crc16r"
    /\ FitsBits(crcArg, 16) /\ crcArg[2] # 0
    /\ table[1] # 0

(***************************************************************************)
(* C3: every value the two 24-bit entry points return is in                *)
(* [0, 0xFFFFFF], whatever the 1024 table bytes are.  The code breaks it   *)
(* in _crc24r.                                                             *)
(***************************************************************************)
C3_Width24Masked ==
    (pc = "done" /\ fn \in {"_crc24", "_crc24r"}) => FitsBits(result.val, 24)

(***************************************************************************)
(* C4: a table whose byte length is not 256 * entry_byte_size(width) makes *)
(* the call fail with "invalid CRC table" and no register value.           *)
(***************************************************************************)
C4_TableSizeRejection ==
    (tableLen # RightTableLen(fn) /\ pc \notin {"idle", "argerror"}) =>
        /\ pc \in {"check", "failed"}
        /\ pc = "failed" =>
              /\ result.msg = "invalid CRC table"
              /\ result.kind = "ValueError"
              /\ result.val = <<>>

C4_Witness ==
    /\ pc = "failed" /\ fn = "_crc64" /\ tableLen = 2049
    /\ Len(data) = 2 /\ crcArg # Zeros(PyLen)

(***************************************************************************)
(* C5: the table length is tested exactly once in a call, before the       *)
(* first pass of the loop; a failed test leaves zero passes, also when     *)
(* the data is empty.                                                      *)
(***************************************************************************)
C5_EagerValidation ==
    /\ nChecks <= 1
    /\ pc = "check" => (nChecks = 0 /\ nSteps = 0 /\ pos = 0)
    /\ pc \in {"mask", "loop", "done", "failed"} => nChecks = 1
    /\ nSteps > 0 => nChecks = 1
    /\ pc = "failed" => (nSteps = 0 /\ pos = 0)
    /\ (Ended /\ tableLen # RightTableLen(fn)) => (pc = "failed" /\ nSteps = 0)

C5_Witness ==
    pc = "failed" /\ data = <<>> /\ nChecks = 1 /\ nSteps = 0

(***************************************************************************)
(* C6: with a table of the right length a call never fails: it is never    *)
(* stuck before its return and it returns a register value; the only       *)
(* failure is the invalid table.                                           *)
(***************************************************************************)
C6_SingleFailureKind ==
    /\ pc = "failed" => (tableLen # RightTableLen(fn) /\ result = InvalidTable)
    /\ (tableLen = RightTableLen(fn) /\ pc # "idle") =>
          /\ pc # "failed"
          /\ pc \in {"check", "mask", "loop"} =>
                /\ dataLen >= 0
                /\ ENABLED (CheckTable \/ MaskEntry \/ Step \/ Return)
          /\ pc = "done" =>
                (result.kind = "value" /\ Len(result.val) = PyLen)

C6_Witness ==
    /\ pc = "done" /\ fn = "_crc32" /\ data = <<>>
    /\ tableLen = 1024 /\ result.kind = "value"

(***************************************************************************)
(* C7: the outcome of a call is a function of its own arguments (initial   *)
(* register, table bytes, data bytes), whatever calls came before it.      *)
(***************************************************************************)
C7_Determinism ==
    Ended => result = Run(fn, data, crcArg, table)

C7_Witness ==
    /\ pc = "done" /\ fn = "_crc32r" /\ nSteps = 2
    /\ sessData # data /\ table[1] # 0

(***************************************************************************)
(* C8: _crc8 and _crc8r give the same outcome on the same arguments: the   *)
(* same value, and the same table lengths rejected.                        *)
(***************************************************************************)
C8_Width8CrossCheck ==
    /\ (Ended /\ fn = "_crc8") => result = Run("_crc8r", data, crcArg, table)
    /\ (Ended /\ fn = "_crc8r") => result = Run("_crc8", data, crcArg, table)

C8_Witness ==
    /\ pc = "done" /\ fn = "_crc8r" /\ nSteps = 2 /\ table[1] # 0
    /\ result.val # crcArg

(***************************************************************************)
(* C9: in both 24-bit entry points the high byte of every four-byte table  *)
(* slot has no effect on the returned register.  The code breaks it in     *)
(* _crc24r.                                                                *)
(***************************************************************************)
C9_TableHighByteUnused ==
    (pc = "done" /\ fn \in {"_crc24", "_crc24r"}) =>
        result = Run(fn, data, crcArg, HighByteCleared(table))

(***************************************************************************)
(* C10: for widths 8, 16, 32 and 64 the register after every pass of the   *)
(* loop and the returned value are in [0, 2^W - 1]: the register has       *)
(* exactly W/8 bytes, and the returned numeral is that register.           *)
(***************************************************************************)
C10_RegisterRange ==
    (WidthBits(fn) # 24 /\ pc \in {"check", "loop", "done"}) =>
        /\ Len(crc) * 8 = WidthBits(fn)
        /\ \A i \in 1..Len(crc) : crc[i] \in 0..255
        /\ pc = "done" =>
              /\ FitsBits(result.val, WidthBits(fn))
              /\ Trunc(result.val, Len(crc)) = crc

C10_Witness ==
    /\ pc = "done" /\ fn = "_crc16" /\ nSteps = 2
    /\ crc[2] # 0 /\ result.val[3] = 0

(***************************************************************************)
(* C12: with a 256-byte table of zeros, _crc8 and _crc8r return 0 for      *)
(* every non-empty data buffer and every initial register.                 *)
(***************************************************************************)
C12_ZeroTableWidth8 ==
    (pc = "done" /\ fn \in {"_crc8", "_crc8r"} /\ table = Zeros(256)
                 /\ data # <<>>)
        => result = Returned(Zeros(PyLen))

C12_Witness ==
    /\ pc = "done" /\ fn = "_crc8" /\ table = Zeros(256)
    /\ data = <<0>> /\ crcArg[1] = 165 /\ result.val = Zeros(PyLen)

(***************************************************************************)
(* C13: no step of a call writes to the table or to the data buffer: from  *)
(* the table length test to the return, a step leaves the table bytes,     *)
(* the data bytes and the arguments as they were; it changes only the      *)
(* call's own register, cursor and remaining length.                       *)
(***************************************************************************)
InputsKept ==
    /\ table' = table
    /\ data' = data
    /\ fn' = fn
    /\ crcArg' = crcArg
    /\ tableLen' = tableLen

CallStepKeepsInputs == pc \in {"check", "mask", "loop"} => InputsKept

C13_ReadOnlyInputs == [][CallStepKeepsInputs]_vars

C13_Witness ==
    /\ pc = "done" /\ fn = "_crc32" /\ nSteps = 2
    /\ data = <<165, 165>> /\ table[1] # 0

(***************************************************************************)
(* C15 as stated: a call that omits the initial register behaves like the  *)
(* same call with initial register 0.                                      *)
(***************************************************************************)
C15_OmittedSeedIsZero ==
    (sessSeed = <<>> /\ pc \in {"done", "failed", "argerror"})
        => result = Run(fn, data, Zeros(PyLen), table)

(***************************************************************************)
(* C15 amended: the entry points have no default register.  A call that    *)
(* omits it fails in the argument parsing, before the table length test,   *)
(* and computes nothing; every call that computes was given a register.    *)
(***************************************************************************)
C15_SeedRequired ==
    /\ sessSeed = <<>> =>
          /\ pc = "argerror" /\ result = ArgError
          /\ crcArg = <<>> /\ nChecks = 0 /\ nSteps = 0
    /\ pc \in {"check", "mask", "loop", "done", "failed"} =>
          Len(crcArg) = PyLen

C15_Witness ==
    /\ pc = "argerror" /\ sessSeed = <<>> /\ fn = "_crc16" /\ Len(table) = 512
    /\ Len(data) = 2 /\ result.kind = "TypeError"

(***************************************************************************)
(* The recurrences of the specification, on registers of W/8 bytes.        *)
(***************************************************************************)
IsNormal(f) == f \in {"_crc16", "_crc24", "_crc32", "_crc64"}

IsReflected(f) == f \in {"_crc16r", "_crc24r", "_crc32r", "_crc64r"}

\* The low n bytes of entry i of a table whose entries take sz bytes.
EntryLow(t, sz, i, n) == SubSeq(t, i * sz + 1, i * sz + n)

\* crc := table[byte xor topByte(crc)] xor (crc << 8), truncated to W bits.
RefNormalStep(w, c, t, d) ==
    LET n == w \div 8
        e == EntryLow(t, EntryByteSize(w), Xor8(d, c[n]), n)
    IN  [i \in 1..n |-> Xor8(e[i], IF i = 1 THEN 0 ELSE c[i - 1])]

RECURSIVE RefNormal(_, _, _, _)
RefNormal(w, c, t, d) ==
    IF d = <<>> THEN c
    ELSE RefNormal(w, RefNormalStep(w, c, t, Head(d)), t, Tail(d))

\* crc := table[byte xor bottomByte(crc)] xor (crc >> 8), on the whole
\* table slot, zeros entering at the top.
RefReflectedStep(c, t, d) ==
    LET m == Len(c)
        e == EntryLow(t, m, Xor8(d, c[1]), m)
    IN  [i \in 1..m |-> Xor8(e[i], IF i = m THEN 0 ELSE c[i + 1])]

RECURSIVE RefReflected(_, _, _)
RefReflected(c, t, d) ==
    IF d = <<>> THEN c
    ELSE RefReflected(RefReflectedStep(c, t, Head(d)), t, Tail(d))

\* crc := table[byte xor crc].
RECURSIVE Ref8(_, _, _)
Ref8(c, t, d) ==
    IF d = <<>> THEN c
    ELSE Ref8(t[Xor8(Head(d), c) + 1], t, Tail(d))

\* The initial register as a register of n bytes (itself when it is in
\* range, its low n bytes otherwise).
InitialRegister(v, n) == SubSeq(v, 1, n)

(***************************************************************************)
(* C16: _crc16, _crc24, _crc32 and _crc64 return the left fold over the    *)
(* data bytes of crc := table[byte xor topByte(crc)] xor (crc << 8)        *)
(* truncated to W bits, from the initial register.                         *)
(***************************************************************************)
C16_NormalRecurrence ==
    (pc = "done" /\ IsNormal(fn)) =>
        result.val =
            ZExt(RefNormal(WidthBits(fn),
                           InitialRegister(crcArg, WidthBits(fn) \div 8),
                           table, data), PyLen)

C16_Witness ==
    /\ pc = "done" /\ fn = "_crc24" /\ nSteps = 2 /\ table[4] # 0
    /\ crc[4] # 0 /\ result.val # Zeros(PyLen)

(***************************************************************************)
(* C17: _crc16r, _crc24r, _crc32r and _crc64r return the left fold over    *)
(* the data bytes of crc := table[byte xor bottomByte(crc)] xor (crc >> 8) *)
(* with a logical shift, from the initial register; table[i] is the whole  *)
(* slot i of the table, which for width 24 has four bytes.                 *)
(***************************************************************************)
C17_ReflectedRecurrence ==
    (pc = "done" /\ IsReflected(fn)) =>
        result.val =
            ZExt(RefReflected(
                     ZExt(InitialRegister(crcArg, WidthBits(fn) \div 8),
                          EntryByteSize(WidthBits(fn))),
                     table, data), PyLen)

C17_Witness ==
    /\ pc = "done" /\ fn = "_crc64r" /\ nSteps = 2 /\ table[1] # 0
    /\ crcArg[8] = 200 /\ result.val[8] # 0

(***************************************************************************)
(* C18: _crc8 and _crc8r return the left fold over the data bytes of       *)
(* crc := table[byte xor crc], from the initial register, with no shift.   *)
(***************************************************************************)
C18_Width8Recurrence ==
    (pc = "done" /\ fn \in {"_crc8", "_crc8r"}) =>
        result.val = ZExt(<<Ref8(crcArg[1], table, data)>>, PyLen)

C18_Witness ==
    /\ pc = "done" /\ fn = "_crc8" /\ nSteps = 2 /\ table[1] # 0
    /\ crcArg[1] = 165 /\ data = <<0, 165>>

(***************************************************************************)
(* C19 as stated: in both 24-bit entry points the top 8 bits of the        *)
(* 32-bit carrier are zero after each pass of the loop.                    *)
(***************************************************************************)
C19_CarrierMaskedEveryStep ==
    (fn \in {"_crc24", "_crc24r"} /\ pc \in {"loop", "done"} /\ nSteps > 0)
        => crc[4] = 0

(***************************************************************************)
(* C19 amended: the carrier is not masked on every assignment.  _crc24     *)
(* masks only the value it returns, whose top 8 bits are zero; _crc24r     *)
(* masks only the initial register, so its carrier has the top 8 bits      *)
(* zero before the first pass, and after a pass they are the top 8 bits    *)
(* of the table slot that pass read.                                       *)
(***************************************************************************)
C19_MaskAtExitOrEntry ==
    /\ (fn = "_crc24" /\ pc = "done") => FitsBits(result.val, 24)
    /\ (fn = "_crc24r" /\ pc = "loop" /\ nSteps = 0) => crc[4] = 0
    /\ (fn = "_crc24r" /\ pc \in {"loop", "done"} /\ nSteps > 0)
          => \E i \in 0..255 : crc[4] = Slot(table, 4, i)[4]

C19_Witness ==
    /\ pc = "done" /\ fn = "_crc24" /\ nSteps = 2
    /\ table = HighByteCleared(table) /\ table[1] # 0
    /\ crc[4] # 0 /\ result.val[4] = 0

\* Single calls; a call, once entered, keeps executing until one of its
\* returns.
LiveNext ==
    \/ Call
    \/ Discard
    \/ CheckTable
    \/ MaskEntry
    \/ Step
    \/ Return

LiveSpec ==
    /\ Init
    /\ [][LiveNext]_vars
    /\ WF_vars(CheckTable \/ MaskEntry \/ Step \/ Return)

LoopCoverage ==
    /\ pc \in {"check", "mask"} =>
          (pos = 0 /\ nSteps = 0 /\ dataLen = Len(data))
    /\ pc = "loop" =>
          /\ pos = nSteps
          /\ dataLen = Len(data) - pos
          /\ dataLen >= 0
          /\ ENABLED (Step \/ Return)
          /\ dataLen # 0 => (ENABLED Step /\ pos + 1 \in DOMAIN data)
    /\ pc = "done" => (nSteps = Len(data) /\ pos = Len(data))

(***************************************************************************)
(* C20: with a valid table the loop makes exactly Len(data) passes and     *)
(* stops: pass i reads data byte i (0-based), the cursor advances by one   *)
(* per pass, no byte beyond the buffer is read, and every call that        *)
(* reaches the loop returns.                                               *)
(***************************************************************************)
C20_LoopCoverage ==
    /\ []LoopCoverage
    /\ (pc = "loop") ~> (pc = "done")

C20_Witness ==
    /\ pc = "done" /\ fn = "_crc32" /\ Len(data) = 2 /\ nSteps = 2 /\ pos = 2

(***************************************************************************)
(* The standard reflected CRC-32 table: entry i is byte i divided, least   *)
(* significant bit first, by the polynomial 0xEDB88320.                    *)
(***************************************************************************)
Poly32r == <<32, 131, 184, 237>>

Shr1(x) ==
    <<(x[1] \div 2) + 128 * (x[2] % 2), (x[2] \div 2) + 128 * (x[3] % 2),
      (x[3] \div 2) + 128 * (x[4] % 2), x[4] \div 2>>

RECURSIVE DivideReflected(_, _)
DivideReflected(c, n) ==
    IF n = 0 THEN c
    ELSE DivideReflected(IF c[1] % 2 = 1
                         THEN Trunc(XorW(Shr1(c), Poly32r), 4)
                         ELSE Shr1(c), n - 1)

Crc32rEntries == [i \in 0..255 |-> DivideReflected(<<i, 0, 0, 0>>, 8)]

Crc32rTable ==
    [j \in 1..1024 |-> Crc32rEntries[(j - 1) \div 4][((j - 1) % 4) + 1]]

\* The ASCII bytes of "123456789".
CheckString == <<49, 50, 51, 52, 53, 54, 55, 56, 57>>

AllOnes32 == <<255, 255, 255, 255, 0, 0, 0, 0>>

VecBuffers == {SubSeq(CheckString, 1, n) : n \in 0..Len(CheckString)}

VecSeeds == {AllOnes32, Zeros(PyLen)}

(***************************************************************************)
(* Calls of the 32-bit entry points on the standard table and the          *)
(* prefixes of the check string.                                           *)
(***************************************************************************)
VecCall ==
    /\ pc = "idle"
    /\ \E f \in {"_crc32r", "_crc32"}, d \in VecBuffers, c \in VecSeeds :
          /\ ParseTuple(f, d, c, Crc32rTable)
          /\ sessSeed' = c
          /\ sessData' = d

VecNext ==
    \/ VecCall
    \/ CheckTable
    \/ Step
    \/ Return
    \/ Discard

VecSpec == Init /\ [][VecNext]_vars

(***************************************************************************)
(* C11: _crc32r over "123456789" with the standard reflected table and     *)
(* initial register 0xFFFFFFFF returns the register whose xor with         *)
(* 0xFFFFFFFF is 0xCBF43926.                                               *)
(***************************************************************************)
C11_KnownVectorCrc32 ==
    (pc = "done" /\ fn = "_crc32r" /\ table = Crc32rTable
                 /\ data = CheckString /\ crcArg = AllOnes32)
        => XorW(result.val, AllOnes32) = <<38, 57, 244, 203, 0, 0, 0, 0>>

C11_Witness ==
    /\ pc = "done" /\ fn = "_crc32r" /\ table = Crc32rTable
    /\ data = CheckString /\ crcArg = AllOnes32 /\ nSteps = 9

(***************************************************************************)
(* Calls running concurrently on one table.  Each thread has its own       *)
(* frame: the variables of a call hold one value per thread; the table is  *)
(* the one buffer every call was given.  A step of the system is one       *)
(* statement of one call.                                                  *)
(***************************************************************************)
Threads == {1, 2}

ConcFns == {"_crc8r", "_crc24r", "_crc32", "_crc32r"}

ConcBuffers == SeqsUpTo({165}, MaxDataLen)

ConcSeeds == {<<165, 0, 0, 0, 0, 0, 0, 0>>, <<1, 2, 3, 129, 5, 6, 7, 200>>}

ConcTables == {GenTable(1, 1024), HighByteCleared(GenTable(1, 1024))}

ConcInit ==
    /\ pc = [t \in Threads |-> "idle"]
    /\ fn = [t \in Threads |-> "_crc8"]
    /\ crcArg = [t \in Threads |-> Zeros(PyLen)]
    /\ data = [t \in Threads |-> <<>>]
    /\ dataLen = [t \in Threads |-> 0]
    /\ pos = [t \in Threads |-> 0]
    /\ crc = [t \in Threads |-> <<0>>]
    /\ table \in ConcTables
    /\ tableLen = [t \in Threads |-> 0]
    /\ result = [t \in Threads |-> NoResult]
    /\ nChecks = [t \in Threads |-> 0]
    /\ nSteps = [t \in Threads |-> 0]
    /\ sessSeed = Zeros(PyLen)
    /\ sessData = <<>>

TCall(t) ==
    /\ pc[t] = "idle"
    /\ \E f \in ConcFns, d \in ConcBuffers, c \in ConcSeeds :
          /\ fn' = [fn EXCEPT ![t] = f]
          /\ crcArg' = [crcArg EXCEPT ![t] = c]
          /\ data' = [data EXCEPT ![t] = d]
          /\ dataLen' = [dataLen EXCEPT ![t] = Len(d)]
          /\ crc' = [crc EXCEPT ![t] = ParseCrc(f, c)]
    /\ tableLen' = [tableLen EXCEPT ![t] = Len(table)]
    /\ pc' = [pc EXCEPT ![t] = "check"]
    /\ UNCHANGED <<pos, table, result, nChecks, nSteps, sessSeed, sessData>>

TCheckTable(t) ==
    /\ pc[t] = "check"
    /\ nChecks' = [nChecks EXCEPT ![t] = @ + 1]
    /\ IF ~TableLenOK(fn[t], tableLen[t])
       THEN /\ result' = [result EXCEPT ![t] = InvalidTable]
            /\ pc' = [pc EXCEPT ![t] = "failed"]
       ELSE /\ pc' = [pc EXCEPT ![t] =
                         IF fn[t] = "_crc24r" THEN "mask" ELSE "loop"]
            /\ UNCHANGED result
    /\ UNCHANGED <<fn, crcArg, data, dataLen, pos, crc, table, tableLen,
                   nSteps, sessSeed, sessData>>

TMaskEntry(t) ==
    /\ pc[t] = "mask"
    /\ crc' = [crc EXCEPT ![t] = EntryCrc(fn[t], @)]
    /\ pc' = [pc EXCEPT ![t] = "loop"]
    /\ UNCHANGED <<fn, crcArg, data, dataLen, pos, table, tableLen, result,
                   nChecks, nSteps, sessSeed, sessData>>

\* Mutant: crc is a static of the function, shared by all its calls.
TStepStaticCrc(t) ==
    /\ pc[t] = "loop"
    /\ dataLen[t] # 0
    /\ dataLen' = [dataLen EXCEPT ![t] = @ - 1]
    /\ crc' = [u \in Threads |->
                  IF fn[u] = fn[t] /\ pc[u] \in {"mask", "loop"}
                  THEN Body(fn[t], crc[t], table, data[t][pos[t] + 1])
                  ELSE crc[u]]
    /\ pos' = [pos EXCEPT ![t] = @ + 1]
    /\ nSteps' = [nSteps EXCEPT ![t] = @ + 1]
    /\ UNCHANGED <<pc, fn, crcArg, data, table, tableLen, result, nChecks,
                   sessSeed, sessData>>

TStep(t) ==
    /\ pc[t] = "loop"
    /\ dataLen[t] # 0
    /\ dataLen' = [dataLen EXCEPT ![t] = @ - 1]
    /\ crc' = [crc EXCEPT ![t] =
                  Body(fn[t], @, table, data[t][pos[t] + 1])]
    /\ pos' = [pos EXCEPT ![t] = @ + 1]
    /\ nSteps' = [nSteps EXCEPT ![t] = @ + 1]
    /\ UNCHANGED <<pc, fn, crcArg, data, table, tableLen, result, nChecks,
                   sessSeed, sessData>>

TReturn(t) ==
    /\ pc[t] = "loop"
    /\ dataLen[t] = 0
    /\ dataLen' = [dataLen EXCEPT ![t] = @ - 1]
    /\ result' = [result EXCEPT ![t] =
                     Returned(PyFromC(ExitCrc(fn[t], crc[t])))]
    /\ pc' = [pc EXCEPT ![t] = "done"]
    /\ UNCHANGED <<fn, crcArg, data, pos, crc, table, tableLen, nChecks,
                   nSteps, sessSeed, sessData>>

ConcNext ==
    \E t \in Threads :
        \/ TCall(t)
        \/ TCheckTable(t)
        \/ TMaskEntry(t)
        \/ TStep(t)
        \/ TReturn(t)

ConcSpec == ConcInit /\ [][ConcNext]_vars

TableKept == table' = table

ReturnsAsAlone ==
    \A t \in Threads :
        pc[t] \in {"done", "failed"}
            => result[t] = Run(fn[t], data[t], crcArg[t], table)

(***************************************************************************)
(* C14: when calls on one shared table run with their statements           *)
(* interleaved in any order, each call returns what it returns when run    *)
(* alone on its own register and data, and no step changes the table.      *)
(***************************************************************************)
C14_SharedTableConcurrency ==
    /\ []ReturnsAsAlone
    /\ [][TableKept]_vars

\* Two calls of one function that were in their loops at the same time.
C14_Witness ==
    /\ pc[1] = "done" /\ pc[2] = "loop"
    /\ fn[1] = "_crc32r" /\ fn[2] = "_crc32r"
    /\ nSteps[1] = 2 /\ nSteps[2] = 1 /\ dataLen[2] = 1
    /\ crcArg[1] # crcArg[2]

(***************************************************************************)
(* The term xored with the table entry in one pass: nothing for width 8,   *)
(* the register shifted left or right by eight bits otherwise.             *)
(***************************************************************************)
ShiftTerm(f, c) ==
    IF f \in {"_crc8", "_crc8r"} THEN Zeros(Len(c))
    ELSE IF IsNormal(f) THEN Shl8(c) ELSE Shr8(c)

(***************************************************************************)
(* C21: in every pass of every entry point the subscript of the table      *)
(* lookup is in 0..255, whatever the register holds (also a 24-bit         *)
(* carrier with non-zero top 8 bits), the entry it selects lies inside     *)
(* the table that passed the length test, and that entry is the one the    *)
(* pass uses.                                                              *)
(***************************************************************************)
C21_TableIndexBound ==
    (pc = "loop" /\ dataLen # 0) =>
        LET d == data[pos + 1]
            i == TableIndex(fn, crc, d)
            sz == CarrierBytes(fn)
        IN  /\ i \in 0..255
            /\ i * sz + 1 >= 1
            /\ i * sz + sz <= tableLen
            /\ tableLen = Len(table)
            /\ XorW(Body(fn, crc, table, d), ShiftTerm(fn, crc))
                   = Slot(table, sz, i)

\* _crc24 about to look up with a carrier whose top 8 bits are non-zero.
C21_Witness ==
    /\ pc = "loop" /\ fn = "_crc24" /\ nSteps = 1 /\ dataLen = 1
    /\ crc[4] # 0 /\ table[1] # 0

(***************************************************************************)
(* The 24-bit references that mask the 32-bit carrier to 24 bits after     *)
(* every byte, starting from the initial register masked to 24 bits.       *)
(***************************************************************************)
RefMasked24Step(c, t, d) ==
    Mask24(XorW(Slot(t, 4, Xor8(d, BYTE2(c))), Shl8(c)))

RECURSIVE RefMasked24(_, _, _)
RefMasked24(c, t, d) ==
    IF d = <<>> THEN c
    ELSE RefMasked24(RefMasked24Step(c, t, Head(d)), t, Tail(d))

(***************************************************************************)
(* C22: for every 1024-byte table, every 32-bit initial carrier and every  *)
(* data buffer, _crc24, which masks only the value it returns, returns     *)
(* the value of the reference that masks after every byte; during the      *)
(* loop the low 24 bits of its carrier are the reference's register.       *)
(***************************************************************************)
C22_MaskAtExitEqualsEveryStep ==
    /\ (fn = "_crc24" /\ pc = "done") =>
          result = Returned(PyFromC(
                      RefMasked24(Mask24(ParseCrc(fn, crcArg)), table, data)))
    /\ (fn = "_crc24" /\ pc = "loop") =>
          Mask24(crc) = RefMasked24(Mask24(ParseCrc(fn, crcArg)), table,
                                    SubSeq(data, 1, pos))

\* A call whose initial carrier, table slots and final carrier all have
\* non-zero top 8 bits.
C22_Witness ==
    /\ pc = "done" /\ fn = "_crc24" /\ nSteps = 2
    /\ crcArg[4] # 0 /\ table[4] # 0 /\ crc[4] # 0

RefMasked24rStep(c, t, d) ==
    Mask24(XorW(Slot(t, 4, Xor8(d, BYTE0(c))), Shr8(c)))

RECURSIVE RefMasked24r(_, _, _)
RefMasked24r(c, t, d) ==
    IF d = <<>> THEN c
    ELSE RefMasked24r(RefMasked24rStep(c, t, Head(d)), t, Tail(d))

\* Every four-byte slot of the table holds a value of at most 0xFFFFFF.
CleanTable24(t) == \A i \in 0..((Len(t) \div 4) - 1) : Slot(t, 4, i)[4] = 0

(***************************************************************************)
(* C23: when every four-byte slot of the table is at most 0xFFFFFF, the    *)
(* carrier of _crc24r is at most 0xFFFFFF after the entry mask and after   *)
(* every pass, and the returned value is that of the reference that masks  *)
(* to 24 bits after every pass.                                            *)
(***************************************************************************)
C23_CleanTableReflected24 ==
    (fn = "_crc24r" /\ CleanTable24(table)) =>
        /\ pc = "loop" =>
              /\ crc[4] = 0
              /\ crc = RefMasked24r(Mask24(ParseCrc(fn, crcArg)), table,
                                    SubSeq(data, 1, pos))
        /\ pc = "done" =>
              /\ crc[4] = 0
              /\ FitsBits(result.val, 24)
              /\ result = Returned(PyFromC(
                     RefMasked24r(Mask24(ParseCrc(fn, crcArg)), table, data)))

\* A call on a clean, non-zero table from a register above 0xFFFFFF.
C23_Witness ==
    /\ pc = "done" /\ fn = "_crc24r" /\ nSteps = 2
    /\ CleanTable24(table) /\ table[1] # 0 /\ crcArg[4] # 0
    /\ result.val # Zeros(PyLen)

\* Values of bits 24-31 of an initial register.
SeedHighBytes == {0, 1, 129, 255}

(***************************************************************************)
(* C24: for _crc24 and _crc24r, every valid table and every data buffer,   *)
(* the empty one included, initial registers that agree on bits 0-23 and   *)
(* differ only in bits 24-31 give the same returned value.                 *)
(***************************************************************************)
C24_SeedHighByteIgnored ==
    (fn \in {"_crc24", "_crc24r"} /\ pc = "done") =>
        \A h \in SeedHighBytes :
            result = Run(fn, data, [crcArg EXCEPT ![4] = h], table)

\* A call of _crc24 on data from a register with bits 24-31 set.
C24_Witness ==
    /\ pc = "done" /\ fn = "_crc24" /\ nSteps = 2
    /\ crcArg[4] = 129 /\ table[1] # 0

\* Whether a call is rejected for its table.
Rejects(f, d, c, t) == Run(f, d, c, t).kind = "ValueError"

Fns4Byte == {"_crc24", "_crc24r", "_crc32", "_crc32r"}

(***************************************************************************)
(* C25: whether a call is rejected depends only on the byte length of the  *)
(* table: the same entry point decides alike for every table of that       *)
(* length, every data buffer and every initial register, and it rejects    *)
(* exactly when the length differs from 256 * entry size; so the 24-bit    *)
(* and the 32-bit entry points accept the same tables.                     *)
(***************************************************************************)
C25_ValidationByLengthOnly ==
    pc \in {"done", "failed"} =>
        /\ (pc = "failed") = (Len(table) # RightTableLen(fn))
        /\ \A t \in {u \in Tables : Len(u) = Len(table)},
              d \in {<<>>, <<165>>}, c \in Seeds :
              Rejects(fn, d, c, t) = (pc = "failed")
        /\ fn \in Fns4Byte =>
              \A g \in Fns4Byte :
                  Rejects(g, data, crcArg, table) = (pc = "failed")

\* A 24-bit call accepted on a table whose slots use all 32 bits.
C25_Witness ==
    /\ pc = "done" /\ fn = "_crc24" /\ nSteps = 1
    /\ Len(table) = 1024 /\ table[4] # 0
    /\ ~Rejects("_crc32", data, crcArg, table)

(***************************************************************************)
(* The selector of the specification: a width and an order, and the name   *)
(* each pair is exposed under.                                             *)
(***************************************************************************)
Widths == {8, 16, 24, 32, 64}

SelectorName(w, reflected) ==
    CASE w = 8 -> IF reflected THEN "_crc8r" ELSE "_crc8"
      [] w = 16 -> IF reflected THEN "_crc16r" ELSE "_crc16"
      [] w = 24 -> IF reflected THEN "_crc24r" ELSE "_crc24"
      [] w = 32 -> IF reflected THEN "_crc32r" ELSE "_crc32"
      [] w = 64 -> IF reflected THEN "_crc64r" ELSE "_crc64"

\* The register the recurrence of width w and the given order reaches.
RefRun(w, reflected, c, t, d) ==
    IF w = 8 THEN <<Ref8(c[1], t, d)>>
    ELSE IF reflected
         THEN RefReflected(ZExt(InitialRegister(c, w \div 8),
                                EntryByteSize(w)), t, d)
         ELSE RefNormal(w, InitialRegister(c, w \div 8), t, d)

ProbeTable(w) ==
    IF w = 24 THEN HighByteCleared(GenTable(1, 256 * EntryByteSize(w)))
    ELSE GenTable(1, 256 * EntryByteSize(w))

ProbeSeed == <<1, 2, 3, 129, 5, 6, 7, 200>>

\* Function m accepts the tables of width w and computes its recurrence in
\* the given order.
Implements(m, w, reflected) ==
    \A d \in {<<165>>, <<0, 165>>} :
        Run(m, d, ProbeSeed, ProbeTable(w)) =
            Returned(ZExt(RefRun(w, reflected, ProbeSeed, ProbeTable(w), d),
                          PyLen))

DispatchBindings ==
    LET n == Len(methodTable)
        reg == Registered(methodTable)
    IN  /\ n = 11
        /\ Len(reg) = 10
        /\ methodTable[n].ml_name = NULL
        /\ methodTable[n].ml_meth = NULL
        /\ {reg[i].ml_name : i \in 1..Len(reg)}
              = {SelectorName(w, r) : w \in Widths, r \in BOOLEAN}
        /\ \A i, j \in 1..Len(reg) :
              reg[i].ml_name = reg[j].ml_name => i = j
        /\ \A w \in Widths, r \in BOOLEAN :
              \E i \in 1..Len(reg) :
                  /\ reg[i].ml_name = SelectorName(w, r)
                  /\ Implements(reg[i].ml_meth, w, r)

(***************************************************************************)
(* C26: the method table exposes exactly ten entry points, one per pair    *)
(* of a width in {8,16,24,32,64} and an order; each name is bound to the   *)
(* function implementing that width and order, no name appears twice, the  *)
(* table ends with the null sentinel, and every call runs a function the   *)
(* table binds.                                                            *)
(***************************************************************************)
C26_DispatchTable ==
    /\ DispatchBindings
    /\ pc # "idle" =>
          \E i \in 1..Len(Registered(methodTable)) :
              /\ Registered(methodTable)[i].ml_meth = fn
              /\ Registered(methodTable)[i].ml_name = fn

\* A finished call of the function bound to the last name of the table.
C26_Witness ==
    /\ pc = "done" /\ nSteps = 2 /\ table[1] # 0
    /\ fn = methodTable[10].ml_meth /\ methodTable[10].ml_name = "_crc64r"

====
